---- MODULE Spec2Model ----
(***************************************************************************)
(* A model of the GIF structural decoder of gif-parser                     *)
(* (src/gif-parser/src/lib/gif-parser.ts).  The file holds two copies of   *)
(* class GifParser: the first (lines 13-135) decodes the header and the    *)
(* logical screen descriptor only, the second (lines 154-559) also the     *)
(* global colour table, the graphics control extension and the images.     *)
(* The constructor of either copy is modelled as a sequence of steps, one  *)
(* per private parse method; the two loops of the image scanner            *)
(* (parseImages, parseImageData) are modelled one iteration per step.      *)
(*                                                                         *)
(* Conventions.  A Buffer is a sequence of bytes 0..255; buffer offsets    *)
(* are 0-based as in the source (At(b, i) is b[i]).  An index outside a    *)
(* Buffer yields JavaScript `undefined`, modelled by the integer           *)
(* Undefined.  An object field that is `undefined` is None, one that has   *)
(* been assigned value v is Some(v).  The CIELAB value of a colour is a    *)
(* floating-point function of its rgb value with no failure mode and no    *)
(* effect on control flow; it is left out of the Color record.             *)
(***************************************************************************)
EXTENDS Integers, Sequences, FiniteSets, TLC

VARIABLES
    variant,                  \* which copy of class GifParser is constructed
    buffer,                   \* binValue: the bytes loadGif returned
    pc,                       \* the constructor's position
    error,                    \* the exception that ended the constructor
    headerBlock,
    logicalScreenDescriptor,
    hasGlobalColorTable,
    globalColorTable,
    graphicsControlExtension,
    images,
    offset,                   \* parseImages: let offset
    imagesLocal,              \* parseImages: const images
    separatorAt,              \* parseImages: offset at which line 276 found 0x2c
    imageDescriptor,          \* parseImages: const imageDescriptor
    localColorTable,          \* parseImages: let localColorTable
    dataOffset,               \* parseImageData: its parameter offset
    imageData                 \* parseImageData: const imageData

vars ==
    << variant, buffer, pc, error, headerBlock, logicalScreenDescriptor,
       hasGlobalColorTable, globalColorTable, graphicsControlExtension, images,
       offset, imagesLocal, separatorAt, imageDescriptor, localColorTable,
       dataOffset, imageData >>

-----------------------------------------------------------------------------
(* JavaScript values *)

\* buffer[i] for an index outside the Buffer
Undefined ==
    -1

None ==
    [def |-> FALSE]

Some(v) ==
    [def |-> TRUE, val |-> v]

Min(a, b) ==
    IF a <= b THEN a ELSE b

Max(a, b) ==
    IF a >= b THEN a ELSE b

RECURSIVE Pow2(_)
\* Math.pow(2, n) for a small natural n
Pow2(n) ==
    IF n = 0 THEN 1 ELSE 2 * Pow2(n - 1)

\* buffer[i], i 0-based
At(b, i) ==
    IF i >= 0 /\ i < Len(b) THEN b[i + 1] ELSE Undefined

\* buffer.subarray(start, end) / buffer.slice(start, end): both ends are clamped
\* to the Buffer
Subarray(b, start, end) ==
    LET s == Min(Max(start, 0), Len(b))
        e == Min(Max(end, 0), Len(b))
    IN  IF e <= s THEN << >> ELSE SubSeq(b, s + 1, e)

\* x & mask for a one-bit mask 2^k, as a boolean; undefined & mask is 0
Bit(x, k) ==
    IF x = Undefined THEN FALSE ELSE (x \div Pow2(k)) % 2 = 1

\* (x & (mask of `width` bits at bit `shift`)) >> shift; undefined gives 0
BitField(x, shift, width) ==
    IF x = Undefined THEN 0 ELSE (x \div Pow2(shift)) % Pow2(width)

\* whether buffer.readUInt16LE(i) throws RangeError: it needs bytes i and i+1
ReadUInt16LEThrows(b, i) ==
    i + 2 > Len(b)

\* buffer.readUInt16LE(i) when it does not throw
ReadUInt16LE(b, i) ==
    At(b, i) + 256 * At(b, i + 1)

-----------------------------------------------------------------------------
(* Program constants *)

\* 0x2c, the image separator parseImages looks for
ImageSeparator ==
    44

\* parseImages: let offset = 7
ScanStart ==
    7

\* parseImages: offset += 11
DescriptorSkip ==
    11

\* parseImageData: while (buffer[offset] !== 0x00)
BlockTerminator ==
    0

\* parseGlobalColorTable: buffer.subarray(13, ...)
GlobalColorTableStart ==
    13

-----------------------------------------------------------------------------
(* Strings: a string is the sequence of its characters *)

\* the character of an ASCII code, for the codes a GIF header holds
AsciiChar(c) ==
    CASE c = 71 -> "G"
      [] c = 73 -> "I"
      [] c = 70 -> "F"
      [] c = 56 -> "8"
      [] c = 55 -> "7"
      [] c = 57 -> "9"
      [] c = 97 -> "a"
      [] OTHER  -> "?"

\* Buffer.toString() of ASCII bytes
BufferToString(b) ==
    [i \in 1..Len(b) |-> AsciiChar(b[i])]

HexDigit(d) ==
    CASE d = 0 -> "0" [] d = 1 -> "1" [] d = 2 -> "2" [] d = 3 -> "3"
      [] d = 4 -> "4" [] d = 5 -> "5" [] d = 6 -> "6" [] d = 7 -> "7"
      [] d = 8 -> "8" [] d = 9 -> "9" [] d = 10 -> "a" [] d = 11 -> "b"
      [] d = 12 -> "c" [] d = 13 -> "d" [] d = 14 -> "e" [] OTHER -> "f"

\* Number.prototype.toString(16) of a byte: no leading zero
ToString16(n) ==
    IF n < 16 THEN << HexDigit(n) >> ELSE << HexDigit(n \div 16), HexDigit(n % 16) >>

-----------------------------------------------------------------------------
(* The parse methods, as functions of the Buffer.  A method that can throw *)
(* returns a record whose field threw tells whether it did.                *)

\* second copy, lines 492-500 (the first copy, lines 109-117, is the same
\* with slice for subarray)
parseHeaderBlock(b) ==
    [signature |-> BufferToString(Subarray(b, 0, 3)),
     version   |-> BufferToString(Subarray(b, 3, 6))]

\* the fields both copies of parseLogicalScreenDescriptor decode alike, given
\* the value computed for colorResolutionValue
ScreenRecord(d, crv) ==
    [width                |-> ReadUInt16LE(d, 0),
     height               |-> ReadUInt16LE(d, 2),
     globalColorTableFlag |-> Bit(At(d, 4), 7),
     colorResolution      |-> BitField(At(d, 4), 4, 3),
     colorResolutionValue |-> crv,
     sortFlag             |-> Bit(At(d, 4), 3),
     backgroundColorIndex |-> At(d, 5),
     pixelAspectRatio     |-> At(d, 6)]

\* second copy, lines 461-484
parseLogicalScreenDescriptor(b) ==
    LET d == Subarray(b, 6, 13)
    IN  IF ReadUInt16LEThrows(d, 0) \/ ReadUInt16LEThrows(d, 2)
        THEN [threw |-> TRUE]
        ELSE [threw |-> FALSE,
              value |-> ScreenRecord(d, Pow2(BitField(At(d, 4), 4, 3) + 1))]

\* first copy, lines 78-101: colorResolutionValue = 1 << colorResolution
parseLogicalScreenDescriptorFirst(b) ==
    LET d == Subarray(b, 6, 13)
    IN  IF ReadUInt16LEThrows(d, 0) \/ ReadUInt16LEThrows(d, 2)
        THEN [threw |-> TRUE]
        ELSE [threw |-> FALSE,
              value |-> ScreenRecord(d, Pow2(BitField(At(d, 4), 4, 3)))]

\* parseColorTable, one iteration of its loop at index i (lines 413-426);
\* red is buffer[i] with i < buffer.length, green and blue may be undefined
ColorAt(b, i) ==
    [rgbValues |-> [r |-> At(b, i), g |-> At(b, i + 1), b |-> At(b, i + 2)],
     hexValue  |-> [value |-> << "#" >> \o ToString16(At(b, i))
                                        \o ToString16(At(b, i + 1))
                                        \o ToString16(At(b, i + 2))]]

\* green.toString(16) or blue.toString(16) on undefined throws TypeError
ColorThrows(b, i) ==
    At(b, i + 1) = Undefined \/ At(b, i + 2) = Undefined

\* lines 409-430: for (let i = 0; i < buffer.length; i += 3)
parseColorTable(b) ==
    LET n == (Len(b) + 2) \div 3
    IN  IF \E k \in 0..(n - 1) : ColorThrows(b, 3 * k)
        THEN [threw |-> TRUE]
        ELSE [threw |-> FALSE,
              value |-> [k \in 1..n |-> ColorAt(b, 3 * (k - 1))]]

\* the bytes parseGlobalColorTable hands to parseColorTable (lines 389-396)
GlobalColorTableBuffer(b, lsd) ==
    Subarray(b, GlobalColorTableStart,
             GlobalColorTableStart + 3 * Pow2(lsd.colorResolution + 1))

\* lines 379-401; hasGct is this.hasGlobalColorTable, lsd the decoded
\* logical screen descriptor
parseGlobalColorTable(b, hasGct, lsd) ==
    IF ~hasGct
    THEN [threw |-> FALSE, value |-> << >>]
    ELSE parseColorTable(GlobalColorTableBuffer(b, lsd))

\* a decoder that takes the four bytes from the block that follows the
\* logical screen descriptor, at offset 13, instead of from offsets 3..6
parseGraphicsControlExtensionMutant(b) ==
    IF ReadUInt16LEThrows(b, 17)
    THEN [threw |-> TRUE]
    ELSE [threw |-> FALSE,
          value |-> [disposalMethod        |-> BitField(At(b, 16), 2, 3),
                     userInputFlag         |-> Bit(At(b, 16), 1),
                     transparentColorFlag  |-> Bit(At(b, 16), 0),
                     delayTime             |-> ReadUInt16LE(b, 17),
                     transparentColorIndex |-> At(b, 19)]]

\* lines 438-453
parseGraphicsControlExtension(b) ==
    IF ReadUInt16LEThrows(b, 4)
    THEN [threw |-> TRUE]
    ELSE [threw |-> FALSE,
          value |-> [disposalMethod        |-> BitField(At(b, 3), 2, 3),
                     userInputFlag         |-> Bit(At(b, 3), 1),
                     transparentColorFlag  |-> Bit(At(b, 3), 0),
                     delayTime             |-> ReadUInt16LE(b, 4),
                     transparentColorIndex |-> At(b, 6)]]

\* lines 330-344; d is buffer.subarray(offset + 1, offset + 11)
parseImageDescriptor(d) ==
    LET packed == At(d, 9)
    IN  IF \/ ReadUInt16LEThrows(d, 0) \/ ReadUInt16LEThrows(d, 2)
           \/ ReadUInt16LEThrows(d, 4) \/ ReadUInt16LEThrows(d, 6)
        THEN [threw |-> TRUE]
        ELSE [threw |-> FALSE,
              value |-> [imageLeftPosition   |-> ReadUInt16LE(d, 0),
                         imageTopPosition    |-> ReadUInt16LE(d, 2),
                         imageWidth          |-> ReadUInt16LE(d, 4),
                         imageHeight         |-> ReadUInt16LE(d, 6),
                         localColorTableFlag |-> Bit(packed, 7),
                         interlaceFlag       |-> Bit(packed, 6),
                         localColorTableSize |-> BitField(packed, 0, 3)]]

\* parseImages, lines 290-293 and 296: 3 * localColorTableSize, the number of
\* bytes of the local colour table
LocalColorTableBytes(desc) ==
    3 * Pow2(BitField(desc.localColorTableSize, 0, 3) + 1)

\* Buffer.from(array of numbers): undefined becomes 0, the rest is kept mod 256
BufferFrom(a) ==
    [i \in 1..Len(a) |-> IF a[i] = Undefined THEN 0 ELSE a[i] % 256]

\* getImages, lines 255-262
getImages ==
    IF images.def THEN [threw |-> FALSE, value |-> images.val] ELSE [threw |-> TRUE]

\* getGraphicsControlExtension, lines 241-248
getGraphicsControlExtension ==
    IF graphicsControlExtension.def
    THEN [threw |-> FALSE, value |-> graphicsControlExtension.val]
    ELSE [threw |-> TRUE]

\* getLogicalScreenDescriptor, lines 213-220
getLogicalScreenDescriptor ==
    IF logicalScreenDescriptor.def
    THEN [threw |-> FALSE, value |-> logicalScreenDescriptor.val]
    ELSE [threw |-> TRUE]

\* getGlobalColorTable, lines 227-234
getGlobalColorTable ==
    IF globalColorTable.def
    THEN [threw |-> FALSE, value |-> globalColorTable.val]
    ELSE [threw |-> TRUE]

-----------------------------------------------------------------------------
(* Inputs: the files loadGif may return.  Every byte sequence is a possible *)
(* file; the model draws from every prefix (a truncated file) of three      *)
(* families of files.                                                       *)

\* palette bytes present after the logical screen descriptor in the files of
\* ScreenFiles
MaxTableBytes ==
    13

\* blocks (images, extensions) that follow the screen descriptor in the files
\* of ImageFiles
MaxBlocks ==
    2

\* how far past the end of the buffer the model follows the cursor of
\* parseImageData: every read there yields undefined, so the loop's
\* behaviour no longer depends on the cursor's value
MaxOverrun ==
    2

\* "GIF89a"
HeaderBytes ==
    << 71, 73, 70, 56, 57, 97 >>

\* a logical screen descriptor: width 1, the given height and packed byte,
\* background colour index 0, pixel aspect ratio 0
ScreenBytes(height, packed) ==
    << 1, 0, height, 0, packed, 0, 0 >>

PaletteCycle ==
    << 1, 2, 255, 16, 32, 48, 0, 10, 171, 200, 100, 5 >>

\* n bytes of palette: rgb(1,2,255), rgb(16,32,48), rgb(0,10,171), ...
PaletteBytes(n) ==
    [i \in 1..n |-> PaletteCycle[((i - 1) % Len(PaletteCycle)) + 1]]

\* packed bytes of the screen descriptor: with and without a global table,
\* colour resolution (bits 6-4) equal to and different from the table size
\* (bits 2-0)
PackedValues ==
    { 0, 112, 128, 129, 144, 145, 240 }

Heights ==
    { 1, 44 }

\* header, screen descriptor and palette
ScreenFiles ==
    { HeaderBytes \o ScreenBytes(h, p) \o PaletteBytes(MaxTableBytes) :
        h \in Heights, p \in PackedValues }

\* left 0, top 0, width 2, height 1, little-endian
GeometryBytes ==
    << 0, 0, 0, 0, 2, 0, 1, 0 >>

\* an image block: the separator, the ten bytes parseImages takes for the
\* descriptor (geometry, then the bytes at separator + 9 and separator + 10),
\* a local colour table, the LZW minimum code size, the data sub-blocks
ImageBlock(flags9, flags10, table, subBlocks) ==
    << 44 >> \o GeometryBytes \o << flags9, flags10 >> \o table \o << 2 >> \o subBlocks

\* a graphics control extension block
ExtensionBlock ==
    << 33, 249, 4, 0, 10, 0, 0, 0 >>

BlockKinds ==
    { ImageBlock(0, 0, << >>, << 3, 1, 2, 3, 2, 4, 5, 0 >>),
      ImageBlock(0, 0, << >>, << 2, 1, 44, 0 >>),
      ImageBlock(0, 0, << >>, << 0, 2, 7, 8, 0 >>),
      ImageBlock(0, 128, PaletteBytes(6), << 1, 5, 0 >>),
      ExtensionBlock }

RECURSIVE BlockSequences(_)
\* the concatenations of at most n blocks
BlockSequences(n) ==
    IF n = 0
    THEN { << >> }
    ELSE LET shorter == BlockSequences(n - 1)
         IN  shorter \cup { s \o k : s \in shorter, k \in BlockKinds }

\* header, screen descriptor without or with a two-entry global table, blocks
\* and the trailer byte 0x3b
ImageFiles ==
    { HeaderBytes \o front \o blocks \o << 59 >> :
        front \in { ScreenBytes(1, 0), ScreenBytes(1, 128) \o PaletteBytes(6) },
        blocks \in BlockSequences(MaxBlocks) }

\* the version characters "87a" and "89a" (file offsets 3..5)
Versions ==
    { << 56, 55, 97 >>, << 56, 57, 97 >> }

\* canvas widths 1 and 300, little-endian (file offsets 6..7)
Widths ==
    { << 1, 0 >>, << 44, 1 >> }

\* canvas height (low byte, offset 8) and background colour index (offset
\* 11): neither, the first or the second is 44, the value of the image
\* separator
HeightAndBackground ==
    { << 1, 0 >>, << 44, 0 >>, << 1, 44 >> }

\* files that differ in the header version and in the fields of the logical
\* screen descriptor, without a global table, with at most one block
HeadFiles ==
    { << 71, 73, 70 >> \o v \o w \o << hb[1], 0, 0, hb[2], 0 >> \o blocks \o << 59 >> :
        v \in Versions, w \in Widths, hb \in HeightAndBackground,
        blocks \in BlockSequences(1) }

Prefixes(file) ==
    { SubSeq(file, 1, n) : n \in 0..Len(file) }

Inputs ==
    UNION { Prefixes(f) : f \in ScreenFiles \cup ImageFiles \cup HeadFiles }

-----------------------------------------------------------------------------
(* The constructor *)

Init ==
    /\ variant \in { "first", "second" }
    /\ buffer \in Inputs
    /\ pc = "header"
    /\ error = "none"
    /\ headerBlock = None
    /\ logicalScreenDescriptor = None
    /\ hasGlobalColorTable = None
    /\ globalColorTable = None
    /\ graphicsControlExtension = None
    /\ images = None
    /\ offset = Undefined
    /\ imagesLocal = << >>
    /\ separatorAt = Undefined
    /\ imageDescriptor = None
    /\ localColorTable = None
    /\ dataOffset = Undefined
    /\ imageData = << >>

fields ==
    << headerBlock, logicalScreenDescriptor, hasGlobalColorTable, globalColorTable,
       graphicsControlExtension, images >>

scanLocals ==
    << offset, imagesLocal, separatorAt, imageDescriptor, localColorTable,
       dataOffset, imageData >>

\* an exception leaves the constructor: no GifParser object exists
Throw(kind) ==
    /\ pc' = "failed"
    /\ error' = kind

\* lines 22 and 167
ParseHeaderBlock ==
    /\ pc = "header"
    /\ headerBlock' = Some(parseHeaderBlock(buffer))
    /\ pc' = "screen"
    /\ UNCHANGED << variant, buffer, error, logicalScreenDescriptor,
                    hasGlobalColorTable, globalColorTable,
                    graphicsControlExtension, images, scanLocals >>

\* first copy, lines 23-27; the constructor ends here
ParseLogicalScreenDescriptorFirst ==
    /\ pc = "screen"
    /\ variant = "first"
    /\ LET r == parseLogicalScreenDescriptorFirst(buffer)
       IN  IF r.threw
           THEN /\ Throw("RangeError")
                /\ UNCHANGED << logicalScreenDescriptor, hasGlobalColorTable >>
           ELSE /\ logicalScreenDescriptor' = Some(r.value)
                /\ hasGlobalColorTable' = Some(r.value.globalColorTableFlag)
                /\ pc' = "done"
                /\ UNCHANGED error
    /\ UNCHANGED << variant, buffer, headerBlock, globalColorTable,
                    graphicsControlExtension, images, scanLocals >>

\* second copy, lines 168-172
ParseLogicalScreenDescriptor ==
    /\ pc = "screen"
    /\ variant = "second"
    /\ LET r == parseLogicalScreenDescriptor(buffer)
       IN  IF r.threw
           THEN /\ Throw("RangeError")
                /\ UNCHANGED << logicalScreenDescriptor, hasGlobalColorTable >>
           ELSE /\ logicalScreenDescriptor' = Some(r.value)
                /\ hasGlobalColorTable' = Some(r.value.globalColorTableFlag)
                /\ pc' = "table"
                /\ UNCHANGED error
    /\ UNCHANGED << variant, buffer, headerBlock, globalColorTable,
                    graphicsControlExtension, images, scanLocals >>

\* line 173
ParseGlobalColorTable ==
    /\ pc = "table"
    /\ LET r == parseGlobalColorTable(buffer, hasGlobalColorTable.val,
                                      logicalScreenDescriptor.val)
       IN  IF r.threw
           THEN /\ Throw("TypeError")
                /\ UNCHANGED globalColorTable
           ELSE /\ globalColorTable' = Some(r.value)
                /\ pc' = "extension"
                /\ UNCHANGED error
    /\ UNCHANGED << variant, buffer, headerBlock, logicalScreenDescriptor,
                    hasGlobalColorTable, graphicsControlExtension, images,
                    scanLocals >>

\* lines 174-176
ParseGraphicsControlExtension ==
    /\ pc = "extension"
    /\ LET r == parseGraphicsControlExtension(buffer)
       IN  IF r.threw
           THEN /\ Throw("RangeError")
                /\ UNCHANGED graphicsControlExtension
           ELSE /\ graphicsControlExtension' = Some(r.value)
                /\ pc' = "images"
                /\ UNCHANGED error
    /\ UNCHANGED << variant, buffer, headerBlock, logicalScreenDescriptor,
                    hasGlobalColorTable, globalColorTable, images, scanLocals >>

-----------------------------------------------------------------------------
(* parseImages (lines 270-322) and parseImageData (lines 353-371) *)

\* a scanner that takes the extension introducer 0x21 for the separator
IsImageSeparatorMutant(x) ==
    x = 33

\* line 276: buffer[offset] !== 0x2c is false
IsImageSeparator(x) ==
    x = ImageSeparator

\* the cursor of parseImageData when the code sets it to o; see MaxOverrun
Advance(o) ==
    Min(o, Len(buffer) + MaxOverrun)

\* lines 177 and 271-273: the constructor calls parseImages
ParseImagesEnter ==
    /\ pc = "images"
    /\ offset' = ScanStart
    /\ imagesLocal' = << >>
    /\ pc' = "scan"
    /\ UNCHANGED << variant, buffer, error, fields, separatorAt, imageDescriptor,
                    localColorTable, dataOffset, imageData >>

\* lines 275-280: not an image separator, skip to the next byte
ScanSkip ==
    /\ pc = "scan"
    /\ offset < Len(buffer)
    /\ ~IsImageSeparator(At(buffer, offset))
    /\ offset' = offset + 1
    /\ UNCHANGED << variant, buffer, pc, error, fields, imagesLocal, separatorAt,
                    imageDescriptor, localColorTable, dataOffset, imageData >>

\* lines 275 and 321, then line 177: the loop ends, the images are stored
ScanReturn ==
    /\ pc = "scan"
    /\ offset >= Len(buffer)
    /\ images' = Some(imagesLocal)
    /\ pc' = "done"
    /\ UNCHANGED << variant, buffer, error, headerBlock, logicalScreenDescriptor,
                    hasGlobalColorTable, globalColorTable,
                    graphicsControlExtension, scanLocals >>

\* lines 282-285: a separator was found; decode the descriptor and move
\* past it
ScanDescriptor ==
    /\ pc = "scan"
    /\ offset < Len(buffer)
    /\ IsImageSeparator(At(buffer, offset))
    /\ LET d == parseImageDescriptor(Subarray(buffer, offset + 1, offset + 11))
       IN  IF d.threw
           THEN /\ Throw("RangeError")
                /\ UNCHANGED << separatorAt, imageDescriptor, offset >>
           ELSE /\ separatorAt' = offset
                /\ imageDescriptor' = Some(d.value)
                /\ offset' = offset + DescriptorSkip
                /\ pc' = "localTable"
                /\ UNCHANGED error
    /\ UNCHANGED << variant, buffer, fields, imagesLocal, localColorTable,
                    dataOffset, imageData >>

\* the bytes handed to parseColorTable for the local table (lines 294-297)
LocalColorTableBuffer ==
    Subarray(buffer, offset, offset + LocalColorTableBytes(imageDescriptor.val))

\* lines 287-307 and 354-357: decode the local colour table if the
\* descriptor flags one, skip a byte, enter parseImageData, which skips a
\* byte again
ScanLocalColorTable ==
    /\ pc = "localTable"
    /\ IF imageDescriptor.val.localColorTableFlag
       THEN IF parseColorTable(LocalColorTableBuffer).threw
            THEN /\ Throw("TypeError")
                 /\ UNCHANGED << localColorTable, offset, dataOffset, imageData >>
            ELSE /\ localColorTable' = Some(parseColorTable(LocalColorTableBuffer).value)
                 /\ offset' = offset + LocalColorTableBytes(imageDescriptor.val) + 1
                 /\ dataOffset' =
                        Advance(offset + LocalColorTableBytes(imageDescriptor.val) + 2)
                 /\ imageData' = << >>
                 /\ pc' = "data"
                 /\ UNCHANGED error
       ELSE /\ localColorTable' = None
            /\ offset' = offset + 1
            /\ dataOffset' = Advance(offset + 2)
            /\ imageData' = << >>
            /\ pc' = "data"
            /\ UNCHANGED error
    /\ UNCHANGED << variant, buffer, fields, imagesLocal, separatorAt,
                    imageDescriptor >>

\* line 359: buffer[offset] !== 0x00 holds (also for undefined), enter the body
DataTest ==
    /\ pc = "data"
    /\ At(buffer, dataOffset) # BlockTerminator
    /\ pc' = "block"
    /\ UNCHANGED << variant, buffer, error, fields, scanLocals >>

\* lines 360-366: one sub-block; an undefined blockSize copies nothing
DataBlock ==
    /\ pc = "block"
    /\ LET blockSize == At(buffer, dataOffset)
           n         == IF blockSize = Undefined THEN 0 ELSE blockSize
       IN  /\ imageData' = imageData \o [i \in 1..n |-> At(buffer, dataOffset + i)]
           /\ dataOffset' = Advance(dataOffset + 1 + n)
    /\ pc' = "data"
    /\ UNCHANGED << variant, buffer, error, fields, offset, imagesLocal,
                    separatorAt, imageDescriptor, localColorTable >>

\* lines 359 and 370, then 309-318: the terminator ends parseImageData, the
\* image is pushed and offset moves by imageData.length + 1
DataReturn ==
    /\ pc = "data"
    /\ At(buffer, dataOffset) = BlockTerminator
    /\ LET data == BufferFrom(imageData)
       IN  /\ imagesLocal' = Append(imagesLocal,
                                    [imageDescriptor |-> imageDescriptor.val,
                                     localColorTable |-> localColorTable,
                                     imageData       |-> data])
           /\ offset' = offset + Len(data) + 1
    /\ pc' = "scan"
    /\ UNCHANGED << variant, buffer, error, fields, separatorAt, imageDescriptor,
                    localColorTable, dataOffset, imageData >>

Next ==
    \/ ParseHeaderBlock
    \/ ParseLogicalScreenDescriptorFirst
    \/ ParseLogicalScreenDescriptor
    \/ ParseGlobalColorTable
    \/ ParseGraphicsControlExtension
    \/ ParseImagesEnter
    \/ ScanSkip
    \/ ScanReturn
    \/ ScanDescriptor
    \/ ScanLocalColorTable
    \/ DataTest
    \/ DataBlock
    \/ DataReturn

Spec ==
    Init /\ [][Next]_vars

\* the constructor is one synchronous call on one thread: while a step is
\* possible, it is taken
FairSpec ==
    /\ Spec
    /\ WF_vars(ParseHeaderBlock)
    /\ WF_vars(ParseLogicalScreenDescriptorFirst)
    /\ WF_vars(ParseLogicalScreenDescriptor)
    /\ WF_vars(ParseGlobalColorTable)
    /\ WF_vars(ParseGraphicsControlExtension)
    /\ WF_vars(ParseImagesEnter)
    /\ WF_vars(ScanSkip)
    /\ WF_vars(ScanReturn)
    /\ WF_vars(ScanDescriptor)
    /\ WF_vars(ScanLocalColorTable)
    /\ WF_vars(DataTest)
    /\ WF_vars(DataBlock)
    /\ WF_vars(DataReturn)

-----------------------------------------------------------------------------
(* What the claims refer to *)

\* the constructor has ended: it returned or it threw
Terminated ==
    pc \in { "done", "failed" }

\* the image pushed last, once parseImageData has returned for it
LastImage ==
    imagesLocal[Len(imagesLocal)]

ImagePushed ==
    pc \in { "scan", "done" } /\ Len(imagesLocal) > 0

RECURSIVE SubBlocksAt(_, _)
\* the data sub-blocks laid out from offset i of b: length-prefixed runs
\* closed by a zero-length block; ok tells whether they all lie in b
SubBlocksAt(b, i) ==
    IF i >= Len(b)
    THEN [ok |-> FALSE]
    ELSE IF At(b, i) = 0
    THEN [ok |-> TRUE, payload |-> << >>, terminator |-> i]
    ELSE LET n    == At(b, i)
             rest == SubBlocksAt(b, i + 1 + n)
         IN  IF rest.ok
             THEN [ok         |-> TRUE,
                   payload    |-> Subarray(b, i + 1, i + 1 + n) \o rest.payload,
                   terminator |-> rest.terminator]
             ELSE [ok |-> FALSE]

\* where the sub-blocks of the image at separatorAt begin in the layout
\* separator, ten descriptor bytes, local table, LZW byte, sub-blocks
LaidOutSubBlocks ==
    SubBlocksAt(buffer,
                separatorAt + 11
                  + (IF localColorTable.def
                     THEN LocalColorTableBytes(imageDescriptor.val) ELSE 0)
                  + 1)

\* n as two lowercase hexadecimal digits
TwoHexDigits(n) ==
    << HexDigit(n \div 16), HexDigit(n % 16) >>

PaddedHex(rgb) ==
    << "#" >> \o TwoHexDigits(rgb.r) \o TwoHexDigits(rgb.g) \o TwoHexDigits(rgb.b)

\* every colour table decoded so far
DecodedTables ==
    (IF globalColorTable.def THEN { globalColorTable.val } ELSE { })
      \cup (IF localColorTable.def THEN { localColorTable.val } ELSE { })

\* the entries a table decoded from raw bytes is to have: one per whole triple
WholeTriples(raw) ==
    [k \in 1..(Len(raw) \div 3) |->
        [r |-> raw[3 * k - 2], g |-> raw[3 * k - 1], b |-> raw[3 * k]]]

RgbOf(table) ==
    [k \in 1..Len(table) |-> table[k].rgbValues]

\* the table-size exponent, bits 2-0 of the packed byte at file offset 10
TableSizeExponent ==
    BitField(At(buffer, 10), 0, 3)

NoSeparatorScanned ==
    \A i \in ScanStart..(Len(buffer) - 1) : At(buffer, i) # ImageSeparator

\* the next step of the scanner reads a byte at or past the end of the buffer
ScanNeedsMissingByte ==
    \/ /\ pc = "scan"
       /\ offset < Len(buffer)
       /\ At(buffer, offset) = ImageSeparator
       /\ offset + 11 > Len(buffer)
    \/ /\ pc = "localTable"
       /\ imageDescriptor.val.localColorTableFlag
       /\ offset + LocalColorTableBytes(imageDescriptor.val) > Len(buffer)
    \/ /\ pc = "data"
       /\ dataOffset >= Len(buffer)
    \/ /\ pc = "block"
       /\ dataOffset + 1 + Max(At(buffer, dataOffset), 0) > Len(buffer)

-----------------------------------------------------------------------------
(* The claims *)

\* C1: for an image whose block is laid out as separator, descriptor,
\* optional local colour table, LZW byte and sub-blocks closed by a
\* zero-length block, the imageData pushed is the concatenation of the
\* sub-block payloads in file order
C1_ImageDataIsPayloadConcatenation ==
    (ImagePushed /\ LaidOutSubBlocks.ok)
        => LastImage.imageData = LaidOutSubBlocks.payload

\* C2: for every buffer the constructor eventually stops, by returning or
\* by failing
C2_ScanTerminates ==
    <>Terminated

\* C3: whenever the scanner, after a separator, needs a byte at or past the
\* end of the buffer, the scan ends in a failure
C3_MissingByteFails ==
    [][ScanNeedsMissingByte => pc' = "failed"]_vars

\* C4: for a buffer shorter than 13 bytes decoding fails and no
\* LogicalScreenDescriptor is ever stored or exposed
C4_ShortBufferFails ==
    Len(buffer) < 13
        => /\ getLogicalScreenDescriptor.threw
           /\ pc \in { "header", "screen", "failed" }

\* C5: every hexValue is '#' and six lowercase hexadecimal digits, two per
\* channel
C5_HexIsZeroPadded ==
    \A table \in DecodedTables : \A k \in 1..Len(table) :
        table[k].hexValue.value = PaddedHex(table[k].rgbValues)

\* C6: with the global-colour-table flag set and a buffer that holds the
\* 3 * 2^(N+1) table bytes from offset 13, N being bits 2-0 of the packed
\* byte, the global colour table has 2^(N+1) entries read from those bytes
C6_GlobalTableSizedByLowBits ==
    ( /\ ~getGlobalColorTable.threw
      /\ hasGlobalColorTable.val
      /\ Len(buffer) >= 13 + 3 * Pow2(TableSizeExponent + 1) )
        => RgbOf(getGlobalColorTable.value)
             = WholeTriples(Subarray(buffer, 13, 13 + 3 * Pow2(TableSizeExponent + 1)))

\* C7: the decoded colorResolution is bits 6-4 of the packed byte at offset
\* 10 and colorResolutionValue is 2^(colorResolution+1), one of 2..256
C7_ColorResolutionValue ==
    (logicalScreenDescriptor.def /\ Len(buffer) > 10)
        => LET lsd == logicalScreenDescriptor.val
           IN  /\ lsd.colorResolution = BitField(At(buffer, 10), 4, 3)
               /\ lsd.colorResolutionValue = Pow2(lsd.colorResolution + 1)
               /\ lsd.colorResolutionValue \in { 2, 4, 8, 16, 32, 64, 128, 256 }

\* C8: a colour table decoded from a byte slice has one entry per whole
\* triple of the slice, in order; a final partial triple is dropped and the
\* decode does not fail
C8_PartialEntryDropped ==
    /\ error # "TypeError"
    /\ (globalColorTable.def /\ hasGlobalColorTable.val)
         => RgbOf(globalColorTable.val)
              = WholeTriples(GlobalColorTableBuffer(buffer, logicalScreenDescriptor.val))
    /\ localColorTable.def
         => RgbOf(localColorTable.val)
              = WholeTriples(Subarray(buffer, separatorAt + 11,
                                      separatorAt + 11
                                        + LocalColorTableBytes(imageDescriptor.val)))

\* C9: on a buffer of at least 13 bytes with no 0x2C at a scanned offset,
\* parseImages, once entered, skips to the end of the buffer without failing
\* and returns the empty sequence, which getImages then returns
C9_NoSeparatorGivesNoImages ==
    (offset # Undefined /\ Len(buffer) >= 13 /\ NoSeparatorScanned)
        => /\ pc \in { "scan", "done" }
           /\ offset <= Len(buffer)
           /\ imagesLocal = << >>
           /\ pc = "done" => /\ offset = Len(buffer)
                             /\ getImages = [threw |-> FALSE, value |-> << >>]

\* C9 witness: parseImages has returned on such a buffer, after skipping
\* bytes up to its end
C9_Witness ==
    /\ pc = "done"
    /\ variant = "second"
    /\ Len(buffer) > 13
    /\ NoSeparatorScanned
    /\ offset = Len(buffer)
    /\ getImages = [threw |-> FALSE, value |-> << >>]

\* C10: after an image whose terminator is at position t is consumed, the
\* next byte tested against 0x2C is the one at t + 1
C10_ScanResumesAfterTerminator ==
    [][(pc = "data" /\ pc' = "scan") => offset' = dataOffset + 1]_vars

\* C11: the separator search skips the header and the logical screen
\* descriptor: no byte at offsets 0..12 is tested against 0x2C, and no byte
\* there is taken for the separator of an image
C11_ScanSkipsScreenDescriptor ==
    /\ (pc = "scan" /\ offset < Len(buffer)) => offset >= GlobalColorTableStart
    /\ separatorAt # Undefined => separatorAt >= GlobalColorTableStart

\* C12: the descriptor decoded for a separator at p holds the four u16 LE
\* values at p+1, p+3, p+5, p+7 and the flags of the byte at p+9, and the
\* cursor then stands at p+11
C12_DescriptorFlagsFromByteNine ==
    pc = "localTable"
        => LET p      == separatorAt
               packed == At(buffer, p + 9)
               d      == imageDescriptor.val
           IN  /\ d.imageLeftPosition = At(buffer, p + 1) + 256 * At(buffer, p + 2)
               /\ d.imageTopPosition = At(buffer, p + 3) + 256 * At(buffer, p + 4)
               /\ d.imageWidth = At(buffer, p + 5) + 256 * At(buffer, p + 6)
               /\ d.imageHeight = At(buffer, p + 7) + 256 * At(buffer, p + 8)
               /\ d.localColorTableFlag = Bit(packed, 7)
               /\ d.interlaceFlag = Bit(packed, 6)
               /\ d.localColorTableSize = BitField(packed, 0, 3)
               /\ offset = p + 11

\* a graphics control extension block (0x21 0xF9) lies in the file
HasExtensionBlock ==
    \E i \in 0..(Len(buffer) - 2) : At(buffer, i) = 33 /\ At(buffer, i + 1) = 249

\* C13: the record getGraphicsControlExtension returns is decoded from file
\* bytes 3..6, whatever blocks the file holds: the three flag fields come
\* from byte 3, delayTime is byte 4 + 256 * byte 5 (version characters), and
\* transparentColorIndex is the logical screen width modulo 256
C13_ExtensionFromHeaderBytes ==
    graphicsControlExtension.def
        => /\ ~getGraphicsControlExtension.threw
           /\ LET g == getGraphicsControlExtension.value
              IN  /\ g.disposalMethod = BitField(At(buffer, 3), 2, 3)
                  /\ g.userInputFlag = Bit(At(buffer, 3), 1)
                  /\ g.transparentColorFlag = Bit(At(buffer, 3), 0)
                  /\ g.delayTime = At(buffer, 4) + 256 * At(buffer, 5)
                  /\ g.transparentColorIndex = At(buffer, 6)
                  /\ g.transparentColorIndex = logicalScreenDescriptor.val.width % 256

\* C13 witness: the constructor has returned on a "GIF87a" file of canvas
\* width 300 that holds an extension block with delay 10 and index 0; the
\* record has delayTime '7' + 256 * 'a' and transparentColorIndex 300 % 256
C13_Witness ==
    /\ pc = "done"
    /\ graphicsControlExtension.def
    /\ HasExtensionBlock
    /\ headerBlock.val.version = << "8", "7", "a" >>
    /\ logicalScreenDescriptor.val.width = 300
    /\ getGraphicsControlExtension.value.delayTime = 24887
    /\ getGraphicsControlExtension.value.transparentColorIndex = 44

====
